---- MODULE Spec2Model ----
(***************************************************************************)
(* rclean (src/src/main.rs): in one directory, files are hashed, a         *)
(* digest -> path map (file_hashes) loaded from results.json is consulted, *)
(* files judged redundant are collected in files_to_remove, removed after  *)
(* the scan, and the map is written back to results.json.                  *)
(*                                                                         *)
(* The model follows main() statement by statement.  One behaviour is a    *)
(* sequence of runs of the program on the same directory.                  *)
(***************************************************************************)
EXTENDS Integers, Sequences, FiniteSets, TLC

(* ------------------------------ bounds --------------------------------- *)
\* number of successive invocations of the program in one behaviour
MaxRuns == 3
\* distinct byte contents a data file may hold: 1..MaxContent
MaxContent == 2
\* modification times: 1..MaxTime
MaxTime == 3
\* changes made to the directory by its owner between runs, in one behaviour
MaxEnv == 1
\* subdirectories among the entries of the directory
MaxSubDirs == 1

(* ---------------------------- the directory ---------------------------- *)
\* names of the entries the scanned directory may hold beside results.json
DataNames == {"a", "b", "c"}
\* target_directory.join("results.json")
hash_results_file == "results.json"
Names == DataNames \cup {hash_results_file}

Contents == 1 .. MaxContent
Times == 1 .. MaxTime
\* the hash_logic strings compute_hash accepts
ValidLogics == {"MD5", "SHA1", "SHA256", "SHA512"}
\* the hash_logic strings a configuration is drawn from ("SHA3" is rejected)
Logics == {"MD5", "SHA3"}

\* an entry of the directory: absent, a subdirectory, or a regular file
NoFile == [kind |-> "none", content |-> [form |-> "none", val |-> 0], mtime |-> 0]
SubDir == [kind |-> "dir", content |-> [form |-> "none", val |-> 0], mtime |-> 1]
DataFile(c, t) == [kind |-> "file", content |-> [form |-> "data", val |-> c], mtime |-> t]
IndexFile(json, t) == [kind |-> "file", content |-> [form |-> "index", val |-> json], mtime |-> t]

VARIABLES
  disk,             \* name -> entry: the directory on disk
  hash_logic,       \* config.hash_logic
  pc,               \* "idle" | "run" | "done" | "failed"
  err,              \* the operation the run failed in: "none" | "open" | "config" |
                    \* "metadata" | "remove" | "create"
  file_hashes,      \* the HashMap digest -> path of the run
  files_to_remove,  \* the Vec of paths scheduled for removal
  nremoved,         \* position of the removal loop in files_to_remove
  todo,             \* entries read_dir has still to yield
  scanned,          \* entries read_dir has yielded, in order
  opened,           \* files compute_hash has opened and read in this run
  disk0,            \* the directory as it was when the run started
  run,              \* number of runs started
  env,              \* number of changes the owner has made between runs
  dirty,            \* the owner changed the directory since the last run ended
  rerun             \* this run follows a successful run with no change between

vars == <<disk, hash_logic, pc, err, file_hashes, files_to_remove, nremoved,
          todo, scanned, opened, disk0, run, env, dirty, rerun>>

(* ------------------------------ helpers -------------------------------- *)
\* Path::exists / Path::is_file / fs::metadata(..).modified()
exists(d, p) == d[p].kind # "none"
is_file(d, p) == d[p].kind = "file"
modified(d, p) == d[p].mtime
\* the comparison of line 69 with >= in place of >
is_newer_or_same(d, current, existing) == modified(d, current) >= modified(d, existing)
\* line 69: current_metadata.modified()? > existing_metadata.modified()?
is_newer(d, current, existing) == modified(d, current) > modified(d, existing)

\* a digest taken over an empty buffer: the bytes of the file are not fed in
digest_unread(content, logic) == [alg |-> logic, of |-> [form |-> content.form, val |-> 0]]
\* compute_hash's digest of a content under a valid hash_logic: a function of
\* the bytes and of the algorithm, injective in the bytes
digest_of(content, logic) == [alg |-> logic, of |-> content]

\* the outcome of compute_hash for a hash_logic outside ValidLogics (line 116)
Panic == [alg |-> "panic", of |-> [form |-> "none", val |-> 0]]

\* compute_hash(path, hash_logic), once the file is opened and read: the
\* match on hash_logic comes after File::open and read_to_end
compute_hash(d, p, logic) ==
  IF logic \in ValidLogics THEN digest_of(d[p].content, logic) ELSE Panic

\* serde_json::to_writer of the map: a JSON object, a set of key/value members
to_writer(m) == {<<h, m[h]>> : h \in DOMAIN m}
\* serde_json::from_reader of a JSON object back into a HashMap
from_reader(json) ==
  [h \in {e[1] : e \in json} |-> (CHOOSE e \in json : e[1] = h)[2]]

EmptyMap == [h \in {} |-> ""]
\* HashMap::insert
insert(m, h, p) == [x \in DOMAIN m \cup {h} |-> IF x = h THEN p ELSE m[x]]

(* ------------------------------- Init ---------------------------------- *)
Init ==
  /\ disk \in [Names -> {NoFile, SubDir} \cup {DataFile(c, t) : c \in Contents, t \in Times}]
  /\ disk[hash_results_file] = NoFile
  /\ Cardinality({p \in DataNames : disk[p] = SubDir}) <= MaxSubDirs
  /\ hash_logic \in Logics
  /\ pc = "idle"
  /\ err = "none"
  /\ file_hashes = EmptyMap
  /\ files_to_remove = <<>>
  /\ nremoved = 0
  /\ todo = {}
  /\ scanned = <<>>
  /\ opened = {}
  /\ disk0 = disk
  /\ run = 0
  /\ env = 0
  /\ dirty = FALSE
  /\ rerun = FALSE

(* ------------------------------ actions -------------------------------- *)
\* lines 47-59 with results.json opened by File::create, which truncates it,
\* once its content is loaded
StartRun_create ==
  /\ pc \in {"idle", "done", "failed"}
  /\ run < MaxRuns
  /\ run' = run + 1
  /\ pc' = "run"
  /\ err' = "none"
  /\ file_hashes' = IF exists(disk, hash_results_file)
                      THEN from_reader(disk[hash_results_file].content.val)
                      ELSE EmptyMap
  /\ files_to_remove' = <<>>
  /\ nremoved' = 0
  /\ todo' = {p \in Names : exists(disk, p)}
  /\ scanned' = <<>>
  /\ opened' = {}
  /\ disk0' = disk
  /\ rerun' = (pc = "done" /\ ~dirty)
  /\ dirty' = FALSE
  /\ disk' = [disk EXCEPT ![hash_results_file] = IndexFile({}, MaxTime)]
  /\ UNCHANGED <<hash_logic, env>>

\* main, lines 47-59: load results.json if it exists, start with an empty
\* files_to_remove, open the directory iterator
StartRun ==
  /\ pc \in {"idle", "done", "failed"}
  /\ run < MaxRuns
  /\ run' = run + 1
  /\ pc' = "run"
  /\ err' = "none"
  /\ file_hashes' = IF exists(disk, hash_results_file)
                      THEN from_reader(disk[hash_results_file].content.val)
                      ELSE EmptyMap
  /\ files_to_remove' = <<>>
  /\ nremoved' = 0
  /\ todo' = {p \in Names : exists(disk, p)}
  /\ scanned' = <<>>
  /\ opened' = {}
  /\ disk0' = disk
  /\ rerun' = (pc = "done" /\ ~dirty)
  /\ dirty' = FALSE
  /\ UNCHANGED <<disk, hash_logic, env>>

\* lines 65-76 with a recorded path that no longer exists treated as no entry
Reconcile_selfheal(p, h) ==
  IF h \in DOMAIN file_hashes /\ exists(disk, file_hashes[h])
    THEN /\ files_to_remove' =
              IF is_newer(disk, p, file_hashes[h])
                THEN Append(files_to_remove, file_hashes[h])
                ELSE Append(files_to_remove, p)
         /\ UNCHANGED <<file_hashes, pc, err>>
    ELSE /\ file_hashes' = insert(file_hashes, h, p)
         /\ UNCHANGED <<files_to_remove, pc, err>>

\* lines 65-76: the decision for a hashed file
Reconcile(p, h) ==
  IF h \in DOMAIN file_hashes
    THEN LET existing_file == file_hashes[h] IN
         IF ~exists(disk, existing_file)
           THEN \* fs::metadata(existing_file)? fails
                /\ pc' = "failed"
                /\ err' = "metadata"
                /\ UNCHANGED <<file_hashes, files_to_remove>>
           ELSE /\ files_to_remove' =
                     IF is_newer(disk, p, existing_file)
                       THEN Append(files_to_remove, existing_file)
                       ELSE Append(files_to_remove, p)
                /\ UNCHANGED <<file_hashes, pc, err>>
    ELSE /\ file_hashes' = insert(file_hashes, h, p)
         /\ UNCHANGED <<files_to_remove, pc, err>>

\* main, lines 59-78: one iteration of the loop over read_dir, for entry p;
\* readable: whether File::open / read_to_end in compute_hash succeed
ScanEntry(p, readable) ==
  /\ pc = "run"
  /\ p \in todo
  /\ todo' = todo \ {p}
  /\ scanned' = Append(scanned, p)
  /\ UNCHANGED <<disk, hash_logic, nremoved, disk0, run, env, dirty, rerun>>
  /\ IF ~is_file(disk, p)
       THEN UNCHANGED <<pc, err, file_hashes, files_to_remove, opened>>
       ELSE IF ~readable
         THEN \* expect("Failed to open file") panics
              /\ pc' = "failed"
              /\ err' = "open"
              /\ UNCHANGED <<file_hashes, files_to_remove, opened>>
         ELSE /\ opened' = opened \cup {p}
              /\ LET h == compute_hash(disk, p, hash_logic) IN
                 IF h = Panic
                   THEN /\ pc' = "failed"
                        /\ err' = "config"
                        /\ UNCHANGED <<file_hashes, files_to_remove>>
                   ELSE Reconcile(p, h)

\* a removal done as soon as a path is scheduled, while read_dir still has
\* entries to yield
RemoveFile_early(ok) ==
  /\ pc = "run"
  /\ nremoved < Len(files_to_remove)
  /\ LET file == files_to_remove[nremoved + 1] IN
     IF exists(disk, file) /\ ok
       THEN /\ disk' = [disk EXCEPT ![file] = NoFile]
            /\ nremoved' = nremoved + 1
            /\ UNCHANGED <<pc, err>>
       ELSE /\ pc' = "failed"
            /\ err' = "remove"
            /\ UNCHANGED <<disk, nremoved>>
  /\ UNCHANGED <<hash_logic, file_hashes, files_to_remove, todo, scanned, opened,
                 disk0, run, env, dirty, rerun>>

\* the removal loop without the ? of line 81: a failed removal is skipped
RemoveFile_besteffort(ok) ==
  /\ pc = "run"
  /\ todo = {}
  /\ nremoved < Len(files_to_remove)
  /\ LET file == files_to_remove[nremoved + 1] IN
     /\ disk' = IF exists(disk, file) /\ ok THEN [disk EXCEPT ![file] = NoFile] ELSE disk
     /\ nremoved' = nremoved + 1
  /\ UNCHANGED <<hash_logic, pc, err, file_hashes, files_to_remove, todo, scanned,
                 opened, disk0, run, env, dirty, rerun>>

\* main, lines 80-82: one iteration of the removal loop;
\* ok: whether fs::remove_file succeeds on a file that exists
RemoveFile(ok) ==
  /\ pc = "run"
  /\ todo = {}
  /\ nremoved < Len(files_to_remove)
  /\ LET file == files_to_remove[nremoved + 1] IN
     IF exists(disk, file) /\ ok
       THEN /\ disk' = [disk EXCEPT ![file] = NoFile]
            /\ nremoved' = nremoved + 1
            /\ UNCHANGED <<pc, err>>
       ELSE /\ pc' = "failed"
            /\ err' = "remove"
            /\ UNCHANGED <<disk, nremoved>>
  /\ UNCHANGED <<hash_logic, file_hashes, files_to_remove, todo, scanned, opened, disk0, run, env, dirty, rerun>>

\* main, lines 84-87: File::create(results.json) and serde_json::to_writer;
\* ok: whether File::create succeeds
Save(ok) ==
  /\ pc = "run"
  /\ todo = {}
  /\ nremoved = Len(files_to_remove)
  /\ IF ok
       THEN /\ disk' = [disk EXCEPT ![hash_results_file] =
                           IndexFile(to_writer(file_hashes), MaxTime)]
            /\ pc' = "done"
            /\ err' = "none"
       ELSE /\ pc' = "failed"
            /\ err' = "create"
            /\ UNCHANGED disk
  /\ UNCHANGED <<hash_logic, file_hashes, files_to_remove, nremoved, todo, scanned, opened, disk0, run, env, dirty, rerun>>

\* between two runs the owner of the directory writes a data file (a new
\* one, or new bytes or a new time for an old one) ...
EnvWrite(p, c, t) ==
  /\ pc \in {"done", "failed"}
  /\ env < MaxEnv
  /\ disk[p].kind # "dir"
  /\ disk[p] # DataFile(c, t)
  /\ disk' = [disk EXCEPT ![p] = DataFile(c, t)]
  /\ env' = env + 1
  /\ dirty' = TRUE
  /\ UNCHANGED <<hash_logic, pc, err, file_hashes, files_to_remove, nremoved,
                 todo, scanned, opened, disk0, run, rerun>>

\* ... or deletes a file, results.json included
EnvDelete(p) ==
  /\ pc \in {"done", "failed"}
  /\ env < MaxEnv
  /\ is_file(disk, p)
  /\ disk' = [disk EXCEPT ![p] = NoFile]
  /\ env' = env + 1
  /\ dirty' = TRUE
  /\ UNCHANGED <<hash_logic, pc, err, file_hashes, files_to_remove, nremoved,
                 todo, scanned, opened, disk0, run, rerun>>

Next ==
  \/ StartRun
  \/ \E p \in DataNames, c \in Contents, t \in Times : EnvWrite(p, c, t)
  \/ \E p \in Names : EnvDelete(p)
  \/ \E p \in Names, readable \in BOOLEAN : ScanEntry(p, readable)
  \/ \E ok \in BOOLEAN : RemoveFile(ok)
  \/ \E ok \in BOOLEAN : Save(ok)

Spec == Init /\ [][Next]_vars

TypeOK ==
  /\ pc \in {"idle", "run", "done", "failed"}
  /\ err \in {"none", "open", "config", "metadata", "remove", "create"}
  /\ (pc = "failed") = (err # "none")
  /\ run \in 0 .. MaxRuns
  /\ nremoved \in 0 .. Len(files_to_remove)
  /\ todo \subseteq Names
(* ----------------------- vocabulary of the claims ---------------------- *)
\* a run has ended successfully and the directory is as the run left it
Finished == pc = "done" /\ ~dirty
\* the DeletionSet of the run, as a set of paths
DeletionSet == {files_to_remove[i] : i \in 1 .. Len(files_to_remove)}
\* the Index the run loaded
LoadedIndex ==
  IF exists(disk0, hash_results_file)
    THEN from_reader(disk0[hash_results_file].content.val)
    ELSE EmptyMap
\* the Index results.json holds in directory d
SavedIndex(d) == from_reader(d[hash_results_file].content.val)
\* the digest of the regular file p of directory d under the configured logic
DigestIn(d, p) == digest_of(d[p].content, hash_logic)
\* the regular files of directory d whose digest is h
FilesWith(d, h) == {p \in Names : is_file(d, p) /\ DigestIn(d, p) = h}
\* the regular data files of directory d
DataFiles(d) == {p \in DataNames : is_file(d, p)}
\* entry p came before entry q in the scan
Before(p, q) ==
  \E i, j \in 1 .. Len(scanned) : i < j /\ scanned[i] = p /\ scanned[j] = q

(* ------------------------------ claims --------------------------------- *)
\* C1 (Uniqueness): after a successful run, for every digest of data content
\* present in the Index exactly one file with that digest exists in the
\* scanned directory (neither zero nor two or more).  Stated for the
\* behaviours in which nobody but the program has changed the directory.
C1_Uniqueness ==
  (Finished /\ env = 0) =>
    \A h \in DOMAIN file_hashes :
      h.of.form = "data" => Cardinality(FilesWith(disk, h)) = 1

\* C2 (Newest-survives): when the directory holds exactly two files A and B
\* with the same content, A older than B, and their digest is not in the
\* loaded Index, then after a successful run only B remains and the Index
\* maps the shared digest to B.
C2_NewestSurvives ==
  Finished =>
    \A A, B \in DataFiles(disk0) :
      ( /\ A # B
        /\ FilesWith(disk0, DigestIn(disk0, A)) = {A, B}
        /\ modified(disk0, A) < modified(disk0, B)
        /\ DigestIn(disk0, A) \notin DOMAIN LoadedIndex )
      => /\ ~exists(disk, A)
         /\ is_file(disk, B)
         /\ DigestIn(disk0, A) \in DOMAIN file_hashes
         /\ file_hashes[DigestIn(disk0, A)] = B

\* C3 (Cache reuse): when the loaded Index maps digest D to an existing file F
\* whose digest is still D, and F is the only file with digest D, then F is
\* never put in the DeletionSet, and after a successful run F exists and the
\* Index still maps D to F.
C3_CacheReuse ==
  (pc = "run" \/ Finished) =>
    \A D \in DOMAIN LoadedIndex :
      LET F == LoadedIndex[D] IN
      FilesWith(disk0, D) = {F}
      => /\ F \notin DeletionSet
         /\ Finished => /\ is_file(disk, F)
                        /\ D \in DOMAIN file_hashes
                        /\ file_hashes[D] = F

\* C4 (Idempotence): a run that follows a successful run with no change to
\* the directory in between has an empty DeletionSet and saves an Index equal
\* to the one it loaded.
C4_Idempotence ==
  (rerun /\ (pc = "run" \/ Finished)) =>
    /\ files_to_remove = <<>>
    /\ Finished => SavedIndex(disk) = LoadedIndex

\* C5 (Index validity): after a successful run, every path the Index records
\* exists, is not in the DeletionSet, and is the most recently modified of the
\* files that had its digest when the run started.
C5_IndexValid ==
  Finished =>
    \A h \in DOMAIN file_hashes :
      /\ is_file(disk, file_hashes[h])
      /\ file_hashes[h] \notin DeletionSet
      /\ \A q \in FilesWith(disk0, h) :
           modified(disk0, q) <= modified(disk0, file_hashes[h])

\* C7 (Results-file exclusion): results.json is never hashed, no Index entry
\* maps a digest to it, and it is never put in the DeletionSet.
C7_ResultsExcluded ==
  /\ hash_results_file \notin opened
  /\ \A h \in DOMAIN file_hashes : file_hashes[h] # hash_results_file
  /\ hash_results_file \notin DeletionSet

\* C9 (Invalid algorithm): with a hash_logic outside MD5, SHA1, SHA256,
\* SHA512 no run ends successfully and no file of the directory is opened.
C9_InvalidLogicFirst ==
  hash_logic \notin ValidLogics => (pc # "done" /\ opened = {})
\* C6 (Tie-break): in a run that loaded an empty Index, when exactly two files
\* p and q share a content and a modification time and p is met before q,
\* then p is recorded in the Index and is not scheduled, q is scheduled for
\* deletion, and after a successful run p exists and q does not.
C6_TieBreak ==
  ((pc = "run" \/ Finished) /\ DOMAIN LoadedIndex = {}) =>
    \A p, q \in DataFiles(disk0) :
      ( /\ p # q
        /\ FilesWith(disk0, DigestIn(disk0, p)) = {p, q}
        /\ modified(disk0, p) = modified(disk0, q)
        /\ Before(p, q) )
      => /\ DigestIn(disk0, p) \in DOMAIN file_hashes
         /\ file_hashes[DigestIn(disk0, p)] = p
         /\ q \in DeletionSet
         /\ p \notin DeletionSet
         /\ Finished => (is_file(disk, p) /\ ~exists(disk, q))

\* a successful run on two files of equal content and time, the second removed
C6_Witness ==
  /\ Finished
  /\ DOMAIN LoadedIndex = {}
  /\ \E p, q \in DataFiles(disk0) :
       /\ p # q
       /\ FilesWith(disk0, DigestIn(disk0, p)) = {p, q}
       /\ modified(disk0, p) = modified(disk0, q)
       /\ Before(p, q)
       /\ ~exists(disk, q)
       /\ is_file(disk, p)

\* the paths the removal loop has removed so far
Removed == {files_to_remove[i] : i \in 1 .. nremoved}

\* C8 (Deletion Executor): results.json is not written while the run is
\* scanning or removing; when a run has succeeded every path of the
\* DeletionSet has been removed; when a removal fails the run stops there:
\* the paths removed before stay removed, every other entry of the directory,
\* results.json included, is as it was when the run started.
C8_DeleteThenSave ==
  /\ pc = "run" => disk[hash_results_file] = disk0[hash_results_file]
  /\ Finished => /\ nremoved = Len(files_to_remove)
                 /\ \A f \in DeletionSet : ~exists(disk, f)
  /\ (pc = "failed" /\ err = "remove" /\ ~dirty) =>
       \A p \in Names : disk[p] = IF p \in Removed THEN NoFile ELSE disk0[p]

\* a removal failed after an earlier one succeeded, and a later path of the
\* DeletionSet is still on disk
C8_Witness ==
  /\ pc = "failed"
  /\ err = "remove"
  /\ ~dirty
  /\ nremoved >= 1
  /\ \E i \in (nremoved + 2) .. Len(files_to_remove) : exists(disk, files_to_remove[i])

\* the regular files of the directory hold pairwise distinct contents
AllDistinct(d) ==
  \A p, q \in DataFiles(d) : p # q => d[p].content # d[q].content

\* C10 (Unique content): a run started with no results.json on files of
\* pairwise distinct content schedules nothing for deletion, and when it
\* succeeds no file has been deleted and the saved Index has exactly one entry
\* per file, mapping the file's digest to the file's path.
C10_UniqueContent ==
  ((pc = "run" \/ Finished) /\ ~exists(disk0, hash_results_file) /\ AllDistinct(disk0)) =>
    /\ files_to_remove = <<>>
    /\ Finished =>
         /\ \A p \in DataNames : disk[p] = disk0[p]
         /\ is_file(disk, hash_results_file)
         /\ SavedIndex(disk) = file_hashes
         /\ DOMAIN file_hashes = {DigestIn(disk0, p) : p \in DataFiles(disk0)}
         /\ \A p \in DataFiles(disk0) : file_hashes[DigestIn(disk0, p)] = p
         /\ Cardinality(DOMAIN file_hashes) = Cardinality(DataFiles(disk0))

\* a successful first run on at least two files of distinct content
C10_Witness ==
  /\ Finished
  /\ ~exists(disk0, hash_results_file)
  /\ AllDistinct(disk0)
  /\ Cardinality(DataFiles(disk0)) >= 2
  /\ Cardinality(DOMAIN file_hashes) >= 2
\* the scan has hashed file p, whose digest the loaded Index maps to a path
\* that did not exist when the run started
MetStale(p) ==
  /\ p \in opened
  /\ hash_logic \in ValidLogics
  /\ DigestIn(disk0, p) \in DOMAIN LoadedIndex
  /\ ~exists(disk0, LoadedIndex[DigestIn(disk0, p)])

\* C11 (Stale entry is fatal): once the scan has hashed a file whose digest
\* the loaded Index maps to a path that no longer exists, the run has failed
\* at the metadata query of that very step: the file is the last one scanned
\* and the stale entry is still there, not replaced by the file.
C11_StaleEntryFatal ==
  \A p \in Names :
    MetStale(p) =>
      /\ pc = "failed"
      /\ err = "metadata"
      /\ scanned[Len(scanned)] = p
      /\ file_hashes[DigestIn(disk0, p)] = LoadedIndex[DigestIn(disk0, p)]

\* a run has aborted on a stale entry
C11_Witness ==
  /\ pc = "failed"
  /\ err = "metadata"
  /\ \E p \in DataNames : MetStale(p)
\* the run has aborted during the scan or during the removals, and the
\* directory is as the run left it
ScanOrRemoveAbort ==
  /\ pc = "failed"
  /\ err \in {"open", "config", "metadata", "remove"}
  /\ ~dirty

SupersedeStep(p) ==
  /\ pc = "run"
  /\ pc' = "run"
  /\ scanned' = Append(scanned, p)
  /\ is_file(disk, p)
  /\ DigestIn(disk, p) \in DOMAIN file_hashes
  /\ exists(disk, file_hashes[DigestIn(disk, p)])
  /\ modified(disk, p) > modified(disk, file_hashes[DigestIn(disk, p)])

\* C13 (Supersede step): every scan step in which the current file's digest is
\* in the Index and the current file is strictly newer than the recorded path
\* schedules the recorded path for deletion and makes the current file's path
\* the Index entry of that digest.
C13_Supersede ==
  [][\A p \in Names :
       SupersedeStep(p) =>
         /\ files_to_remove' = Append(files_to_remove, file_hashes[DigestIn(disk, p)])
         /\ DigestIn(disk, p) \in DOMAIN file_hashes'
         /\ file_hashes'[DigestIn(disk, p)] = p]_vars
\* the run has aborted during the scan, and the directory is as the run left it
ScanAbort ==
  /\ pc = "failed"
  /\ err \in {"open", "config", "metadata"}
  /\ ~dirty

\* C14 (Scan before delete): while read_dir has entries left no file has been
\* removed, and a run that aborted during the scan (unreadable file, invalid
\* hash_logic, stale Index path) has removed no file and has left every entry
\* of the directory, results.json included, as it was when the run started.
C14_ScanBeforeDelete ==
  /\ (pc = "run" /\ todo # {}) => (disk = disk0 /\ nremoved = 0)
  /\ ScanAbort => (disk = disk0 /\ nremoved = 0)

\* a run aborted during the scan with a path already scheduled for deletion,
\* which is still on disk beside a results.json of an earlier run
C14_Witness ==
  /\ ScanAbort
  /\ files_to_remove # <<>>
  /\ exists(disk, files_to_remove[1])
  /\ exists(disk, hash_results_file)
\* C15 (DeletionSet has no duplicates): no path occurs twice in
\* files_to_remove, and a removal that fails while nobody else touches the
\* directory fails on a file that still exists (never on a path the loop has
\* itself removed before).
C15_NoDuplicates ==
  /\ \A i, j \in 1 .. Len(files_to_remove) :
       i # j => files_to_remove[i] # files_to_remove[j]
  /\ (pc = "failed" /\ err = "remove" /\ ~dirty) =>
       exists(disk, files_to_remove[nremoved + 1])
(* ------------- a whole run as a function of the scan order ------------- *)
\* the entries of the directory in one fixed order
NameSeq == <<"a", "b", "c", "results.json">>
IsEntry(d, p) == exists(d, p)
\* read_dir yielding the entries of d in the order of NameSeq
FixedOrder(d) == SelectSeq(NameSeq, LAMBDA p : IsEntry(d, p))

\* lines 60-77 for entry p on scan state st = [ok, index, removes], with every
\* file readable
ScanOne(d, p, st) ==
  IF ~is_file(d, p) THEN st
  ELSE LET h == compute_hash(d, p, hash_logic) IN
       IF h = Panic THEN [st EXCEPT !.ok = FALSE]
       ELSE IF h \in DOMAIN st.index
         THEN IF ~exists(d, st.index[h])
                THEN [st EXCEPT !.ok = FALSE]
                ELSE [st EXCEPT !.removes =
                        Append(@, IF is_newer(d, p, st.index[h]) THEN st.index[h] ELSE p)]
         ELSE [st EXCEPT !.index = insert(@, h, p)]

\* lines 59-78: the loop over the entries order[i..], stopped by a failure
RECURSIVE ScanAll(_, _, _, _)
ScanAll(d, order, i, st) ==
  IF i > Len(order) \/ ~st.ok THEN st
  ELSE ScanAll(d, order, i + 1, ScanOne(d, order[i], st))

\* lines 80-82: the removal loop from position i, every remove_file of an
\* existing file succeeding
RECURSIVE RemoveAll(_, _, _)
RemoveAll(d, removes, i) ==
  IF i > Len(removes) THEN [ok |-> TRUE, disk |-> d]
  ELSE IF ~exists(d, removes[i]) THEN [ok |-> FALSE, disk |-> d]
  ELSE RemoveAll([d EXCEPT ![removes[i]] = NoFile], removes, i + 1)

\* main, lines 47-87, on directory d with read_dir yielding order and no
\* failure of an operation on a file that exists: [ok, disk]
RunIn(d, order) ==
  LET loaded == IF exists(d, hash_results_file)
                  THEN from_reader(d[hash_results_file].content.val)
                  ELSE EmptyMap
      sc == ScanAll(d, order, 1, [ok |-> TRUE, index |-> loaded, removes |-> <<>>])
      rm == RemoveAll(d, sc.removes, 1)
  IN IF ~sc.ok THEN [ok |-> FALSE, disk |-> d]
     ELSE IF ~rm.ok THEN [ok |-> FALSE, disk |-> rm.disk]
     ELSE [ok |-> TRUE,
           disk |-> [rm.disk EXCEPT ![hash_results_file] =
                       IndexFile(to_writer(sc.index), MaxTime)]]

\* the run has ended, by success or by a failure that is not an I/O error on
\* a file that exists, and the directory is as the run left it
EndedByItself ==
  /\ ~dirty
  /\ \/ pc = "done"
     \/ pc = "failed" /\ err \in {"config", "metadata"}
     \/ pc = "failed" /\ err = "remove" /\ ~exists(disk, files_to_remove[nremoved + 1])

\* the files of d that share a digest have pairwise distinct modification times
DistinctTimes(d) ==
  \A p, q \in Names :
    (p # q /\ is_file(d, p) /\ is_file(d, q) /\ d[p].content = d[q].content)
      => modified(d, p) # modified(d, q)

\* C16 (Scan-order independence): for a directory whose files sharing a digest
\* have pairwise distinct modification times, a run ends, whatever order
\* read_dir yields, as it ends in the fixed order: same outcome (success or
\* abort), same surviving entries, same results.json.
C16_OrderIndependent ==
  (EndedByItself /\ DistinctTimes(disk0)) =>
    LET r == RunIn(disk0, FixedOrder(disk0)) IN
      /\ (pc = "done") = r.ok
      /\ disk = r.disk
====
